---- MODULE Spec2Model ----
(***************************************************************************)
(* Model of the climate dashboard of src/src/App.tsx: the region table,    *)
(* the historical series, the metrics computation of ClimateAIDashboard    *)
(* and its selection state with the two useMemo caches.                    *)
(*                                                                         *)
(* JavaScript numbers are IEEE-754 binary64 values.  They are modelled     *)
(* exactly: a number is a record [s, m, e] standing for s * m * 2^e with   *)
(* a 53-bit significand m, every arithmetic operation rounds to nearest,   *)
(* ties to even, and Number.prototype.toFixed works on the exact binary    *)
(* value.  Significands are wider than TLC's integers, so a natural number *)
(* is a little-endian sequence of limbs in base 2^15.  Exponent overflow   *)
(* and subnormals cannot occur for the magnitudes of this program and are  *)
(* not modelled.  Strings are sequences of one-character strings.          *)
(***************************************************************************)
EXTENDS Integers, Sequences, FiniteSets, TLC

VARIABLES
  selectedRegion,  \* useState<Region>('Global')
  selectedYear,    \* useState(2050)
  metrics,         \* value held by the first useMemo
  metricsDeps,     \* its dependency array [selectedYear, selectedRegion]
  historicalData,  \* value held by the second useMemo
  historicalDeps,  \* its dependency array [selectedRegion]
  calc,            \* last direct call of the metrics computation
  hist,            \* last direct call of getRegionalHistoricalData
  anchor           \* history: one earlier committed render, or <<>>

vars ==
  <<selectedRegion, selectedYear, metrics, metricsDeps, historicalData,
    historicalDeps, calc, hist, anchor>>

ui == <<selectedRegion, selectedYear, metrics, metricsDeps, historicalData,
        historicalDeps>>

\* ------------------------------------------------------------------------
\* Natural numbers of arbitrary size (limbs, least significant first)
\* ------------------------------------------------------------------------
LimbBits == 15
Base == 2^LimbBits

Limb(a, i) == IF i <= Len(a) THEN a[i] ELSE 0

RECURSIVE BTrim(_)
BTrim(a) ==
  IF a = <<>> THEN <<>>
  ELSE IF a[Len(a)] = 0 THEN BTrim(SubSeq(a, 1, Len(a) - 1)) ELSE a

RECURSIVE BFromInt(_)
BFromInt(n) == IF n = 0 THEN <<>> ELSE <<n % Base>> \o BFromInt(n \div Base)

RECURSIVE BToInt(_)
BToInt(a) == IF a = <<>> THEN 0 ELSE a[1] + Base * BToInt(Tail(a))

\* limbs i.. of a + b, where s is the sum of the two limbs i and the carry
RECURSIVE BAddC(_, _, _, _)
BAddC(a, b, i, s) ==
  IF i > Len(a) /\ i > Len(b) THEN (IF s = 0 THEN <<>> ELSE <<s>>)
  ELSE <<s % Base>>
         \o BAddC(a, b, i + 1, Limb(a, i + 1) + Limb(b, i + 1) + s \div Base)

BAdd(a, b) == BAddC(a, b, 1, Limb(a, 1) + Limb(b, 1))

\* limbs i.. of a - b, where d is the difference of the two limbs i less
\* the borrow
RECURSIVE BSubC(_, _, _, _)
BSubC(a, b, i, d) ==
  IF i > Len(a) THEN <<>>
  ELSE <<d % Base>>
         \o BSubC(a, b, i + 1,
                  Limb(a, i + 1) - Limb(b, i + 1) - (IF d < 0 THEN 1 ELSE 0))

\* a - b for a >= b
BSub(a, b) == BTrim(BSubC(a, b, 1, Limb(a, 1) - Limb(b, 1)))

RECURSIVE BCmpAt(_, _, _)
BCmpAt(a, b, i) ==
  IF i = 0 THEN 0
  ELSE IF a[i] # b[i] THEN (IF a[i] < b[i] THEN -1 ELSE 1)
  ELSE BCmpAt(a, b, i - 1)

\* -1, 0, 1 for trimmed a <, =, > b
BCmp(a, b) ==
  IF Len(a) # Len(b) THEN (IF Len(a) < Len(b) THEN -1 ELSE 1)
  ELSE BCmpAt(a, b, Len(a))

\* limbs i.. of a * k, where c is the carry into limb i
RECURSIVE BMulSmallC(_, _, _, _)
BMulSmallC(a, k, i, c) ==
  IF i > Len(a) THEN (IF c = 0 THEN <<>> ELSE <<c>>)
  ELSE <<(a[i] * k + c) % Base>>
         \o BMulSmallC(a, k, i + 1, (a[i] * k + c) \div Base)

\* a * k for 0 <= k <= Base
BMulSmall(a, k) == IF k = 0 THEN <<>> ELSE BMulSmallC(a, k, 1, 0)

RECURSIVE BMulAt(_, _, _)
BMulAt(a, b, i) ==
  IF i > Len(b) THEN <<>>
  ELSE BAdd(BMulSmall(a, b[i]), <<0>> \o BMulAt(a, b, i + 1))

BMul(a, b) == BTrim(BMulAt(a, b, 1))

\* long division from limb i down; r is the remainder so far, q the
\* quotient limbs so far
RECURSIVE BDivSmallAt(_, _, _, _, _)
BDivSmallAt(a, d, i, r, q) ==
  IF i = 0 THEN [q |-> BTrim(q), r |-> r]
  ELSE BDivSmallAt(a, d, i - 1, (r * Base + a[i]) % d,
                   <<(r * Base + a[i]) \div d>> \o q)

\* quotient and remainder of a by d, 0 < d <= Base
BDivSmall(a, d) == BDivSmallAt(a, d, Len(a), 0, <<>>)

Zeros(k) == [i \in 1..k |-> 0]

BShl(a, n) ==
  IF a = <<>> THEN <<>>
  ELSE Zeros(n \div LimbBits) \o BMulSmall(a, 2^(n % LimbBits))

BShr(a, n) ==
  IF n \div LimbBits >= Len(a) THEN <<>>
  ELSE BDivSmall(SubSeq(a, n \div LimbBits + 1, Len(a)), 2^(n % LimbBits)).q

RECURSIVE BitLenSmall(_)
BitLenSmall(n) == IF n = 0 THEN 0 ELSE 1 + BitLenSmall(n \div 2)

BBitLen(a) ==
  IF a = <<>> THEN 0
  ELSE LimbBits * (Len(a) - 1) + BitLenSmall(a[Len(a)])

BOne == <<1>>

BIsOdd(a) == a # <<>> /\ a[1] % 2 = 1

\* number of trailing zero bits of a > 0
RECURSIVE BTrailingZeros(_)
BTrailingZeros(a) ==
  IF a[1] = 0 THEN LimbBits + BTrailingZeros(Tail(a))
  ELSE IF BIsOdd(a) THEN 0
  ELSE 1 + BTrailingZeros(BShr(a, 1))

\* ------------------------------------------------------------------------
\* IEEE-754 binary64 numbers
\* ------------------------------------------------------------------------
MantBits == 53

DZero(s) == [s |-> s, m |-> <<>>, e |-> 0]

DIsZero(x) == x.m = <<>>

\* s * q * 2^e for q of MantBits or MantBits + 1 bits (the latter after a
\* carry out of the rounding, when q is 2^MantBits)
Renormalise(s, q, e) ==
  IF BBitLen(q) > MantBits THEN [s |-> s, m |-> BShr(q, 1), e |-> e + 1]
  ELSE [s |-> s, m |-> q, e |-> e]

\* q is N without its d low bits: round q up when the dropped bits are more
\* than half a unit of q, or exactly half and (sticky or q odd)
RoundDropped(s, N, e, sticky, d, q) ==
  Renormalise(s,
              IF BCmp(BSub(N, BShl(q, d)), BShl(BOne, d - 1))
                   + (IF sticky \/ BIsOdd(q) THEN 1 ELSE 0) > 0
                THEN BAdd(q, BOne) ELSE q,
              e + d)

\* The binary64 nearest to s * N * 2^e (ties to even).  sticky says that the
\* true magnitude is N * 2^e plus a positive amount below 2^e; it is used
\* only with N of at least MantBits + 2 bits.
RoundNE(s, N, e, sticky) ==
  IF N = <<>> THEN DZero(s)
  ELSE IF BBitLen(N) <= MantBits
    THEN [s |-> s, m |-> BShl(N, MantBits - BBitLen(N)),
          e |-> e - (MantBits - BBitLen(N))]
  ELSE RoundDropped(s, N, e, sticky, BBitLen(N) - MantBits,
                    BShr(N, BBitLen(N) - MantBits))

\* the same for a quotient with its remainder
RoundQuotient(s, qr, e) == RoundNE(s, qr.q, e, qr.r # 0)

DNeg(x) == [x EXCEPT !.s = -x.s]

DFromInt(n) ==
  RoundNE(IF n < 0 THEN -1 ELSE 1, BFromInt(IF n < 0 THEN -n ELSE n), 0, FALSE)

\* The value of a decimal literal: digits * 10^(-scale), correctly rounded.
DLit(digits, scale) ==
  RoundQuotient(1, BDivSmall(BShl(BFromInt(digits), 75), 10^scale), -75)

DMul(x, y) == RoundNE(x.s * y.s, BMul(x.m, y.m), x.e + y.e, FALSE)

\* sx * X * 2^e + sy * Y * 2^e; an exact cancellation gives +0
AddAligned(sx, X, sy, Y, e) ==
  RoundNE(IF sx = sy THEN sx
          ELSE CASE BCmp(X, Y) > 0 -> sx
                 [] BCmp(X, Y) < 0 -> sy
                 [] OTHER -> 1,
          IF sx = sy THEN BAdd(X, Y)
          ELSE IF BCmp(X, Y) >= 0 THEN BSub(X, Y) ELSE BSub(Y, X),
          e, FALSE)

MinExp(x, y) == IF x.e < y.e THEN x.e ELSE y.e

DAdd(x, y) ==
  IF DIsZero(x) /\ DIsZero(y) THEN DZero(IF x.s < 0 /\ y.s < 0 THEN -1 ELSE 1)
  ELSE IF DIsZero(x) THEN y
  ELSE IF DIsZero(y) THEN x
  ELSE AddAligned(x.s, BShl(x.m, x.e - MinExp(x, y)),
                  y.s, BShl(y.m, y.e - MinExp(x, y)), MinExp(x, y))

DSub(x, y) == DAdd(x, DNeg(y))

\* x / y where y.m is odd * 2^tz
DivByOddPart(x, y, tz) ==
  RoundQuotient(x.s * y.s,
                BDivSmall(BShl(x.m, 2 * LimbBits), BToInt(BShr(y.m, tz))),
                x.e - 2 * LimbBits - (y.e + tz))

\* x / y for a non-zero divisor whose odd part is below Base (the program
\* only divides by the integer 2050 - 2023).
DDiv(x, y) ==
  IF DIsZero(x) THEN DZero(x.s * y.s)
  ELSE DivByOddPart(x, y, BTrailingZeros(y.m))

\* ------------------------------------------------------------------------
\* Number.prototype.toFixed(fractionDigits) for fractionDigits = 1
\* ------------------------------------------------------------------------
DigitChar == <<"0", "1", "2", "3", "4", "5", "6", "7", "8", "9">>

RECURSIVE DigitsOf(_)
DigitsOf(n) ==
  IF n < 10 THEN <<DigitChar[n + 1]>>
  ELSE DigitsOf(n \div 10) \o <<DigitChar[(n % 10) + 1]>>

\* the integer n for which n / 10 - |x| is closest to zero, the larger n on
\* a tie: floor(10 * |x| + 1/2)
NearestTenths(x) ==
  IF DIsZero(x) THEN 0
  ELSE IF x.e >= 0 THEN BToInt(BShl(BMulSmall(x.m, 10), x.e))
  ELSE BToInt(BShr(BAdd(BMulSmall(x.m, 20), BShl(BOne, -x.e)), 1 - x.e))

\* at least one digit before the last one
PadInteger(ds) == IF Len(ds) <= 1 THEN <<"0">> \o ds ELSE ds

PointBeforeLast(ds) ==
  SubSeq(ds, 1, Len(ds) - 1) \o <<".">> \o SubSeq(ds, Len(ds), Len(ds))

\* "-" in front of the digits of a number below zero
WithSign(x, body) == IF x.s < 0 /\ ~DIsZero(x) THEN <<"-">> \o body ELSE body

toFixed1Unpadded(x) == WithSign(x, PointBeforeLast(DigitsOf(NearestTenths(x))))

toFixed1(x) ==
  WithSign(x, PointBeforeLast(PadInteger(DigitsOf(NearestTenths(x)))))

\* ------------------------------------------------------------------------
\* Static tables (App.tsx 222-262)
\* ------------------------------------------------------------------------
regions ==
  <<"Global", "North America", "Europe", "Asia", "Africa", "South America",
    "Oceania">>

\* type Region = typeof regions[number]
Region == {regions[i] : i \in DOMAIN regions}

Factors(t, p, s, x) ==
  [temperature |-> t, precipitation |-> p, seaLevel |-> s, extremeEvents |-> x]

\* the numeric literals of the tables and of the formulas
N0   == DLit(0, 0)
N0_2 == DLit(2, 1)
N0_5 == DLit(5, 1)
N0_7 == DLit(7, 1)
N0_8 == DLit(8, 1)
N0_9 == DLit(9, 1)
N1   == DLit(1, 0)
N1_0 == DLit(10, 1)
N1_1 == DLit(11, 1)
N1_2 == DLit(12, 1)
N1_3 == DLit(13, 1)
N1_4 == DLit(14, 1)
N1_5 == DLit(15, 1)
N1_6 == DLit(16, 1)
N5_3 == DLit(53, 1)
N26_3 == DLit(263, 1)
N32  == DLit(32, 0)

regionalFactors ==
  ("Global"        :> Factors(N1, N1, N1, N1)) @@
  ("North America" :> Factors(N1_2, N1_3, N0_8, N1_1)) @@
  ("Europe"        :> Factors(N1_1, N1_2, N0_9, N1_2)) @@
  ("Asia"          :> Factors(N1_3, N1_4, N1_2, N1_3)) @@
  ("Africa"        :> Factors(N1_4, N0_7, N1_1, N1_4)) @@
  ("South America" :> Factors(N1_1, N1_5, N1_0, N1_2)) @@
  ("Oceania"       :> Factors(N1_2, N0_9, N1_3, N1_1))

\* regionalFactors[region] is undefined for a missing key, and the property
\* read on undefined that follows throws
TypeError == [error |-> "TypeError"]

\* what a caller holds in place of the series when the call threw
Thrown == <<TypeError>>

Point(y, t) == [year |-> y, temperature |-> t]

historicalRowsWrongField(factor) ==
  << Point(1900, DMul(DNeg(N0_2), factor.precipitation)),
     Point(1950, DMul(N0, factor.precipitation)),
     Point(2000, DMul(N0_5, factor.precipitation)),
     Point(2023, DMul(N1_1, factor.precipitation)),
     Point(2030, DMul(N1_3, factor.precipitation)),
     Point(2040, DMul(N1_4, factor.precipitation)),
     Point(2050, DMul(N1_6, factor.precipitation)) >>

\* the array literal returned by getRegionalHistoricalData, for the value
\* of its local constant factor
historicalRows(factor) ==
  << Point(1900, DMul(DNeg(N0_2), factor.temperature)),
     Point(1950, DMul(N0, factor.temperature)),
     Point(2000, DMul(N0_5, factor.temperature)),
     Point(2023, DMul(N1_1, factor.temperature)),
     Point(2030, DMul(N1_3, factor.temperature)),
     Point(2040, DMul(N1_4, factor.temperature)),
     Point(2050, DMul(N1_6, factor.temperature)) >>

getRegionalHistoricalData(region) ==
  IF region \notin DOMAIN regionalFactors THEN Thrown
  ELSE historicalRows(regionalFactors[region])

\* ------------------------------------------------------------------------
\* The metrics computation (the callback of the first useMemo, 298-314)
\* ------------------------------------------------------------------------
baseYear == 2023

\* the constant subexpressions (2050 - 2023) and (1.6 - 1.1)
Span == DSub(DFromInt(2050), DFromInt(2023))
TempRiseNegated == DSub(N1_1, N1_6)
TempRise == DSub(N1_6, N1_1)

baseTempIncreaseFromEnd(yearDiff) ==
  DAdd(N1_6, DDiv(DMul(yearDiff, TempRise), Span))

baseTempIncrease(yearDiff) == DAdd(N1_1, DDiv(DMul(yearDiff, TempRise), Span))

basePrecipChangeUnscaled(yearDiff) == DMul(yearDiff, N5_3)

basePrecipChange(yearDiff) == DDiv(DMul(yearDiff, N5_3), Span)

baseSeaLevelRiseInclusive(yearDiff) ==
  DDiv(DMul(yearDiff, N26_3), DFromInt(2050 - 2023 + 1))

baseSeaLevelRise(yearDiff) == DDiv(DMul(yearDiff, N26_3), Span)

baseExtremeEvents(yearDiff) == DDiv(DMul(yearDiff, N32), Span)

\* the object returned by the callback, for the values of its local
\* constants factors and yearDiff
metricsObject(factors, yearDiff) ==
  [temperature   |->
     toFixed1(DMul(baseTempIncrease(yearDiff), factors.temperature)),
   precipitation |->
     toFixed1(DMul(basePrecipChange(yearDiff), factors.precipitation)),
   seaLevel      |->
     toFixed1(DMul(baseSeaLevelRise(yearDiff), factors.seaLevel)),
   extremeEvents |->
     toFixed1(DMul(baseExtremeEvents(yearDiff), factors.extremeEvents))]

computeMetrics(region, year) ==
  IF region \notin DOMAIN regionalFactors THEN TypeError
  ELSE metricsObject(regionalFactors[region],
                     DSub(DFromInt(year), DFromInt(baseYear)))

\* ------------------------------------------------------------------------
\* Bounds of the model and tabulation of the two pure functions
\* ------------------------------------------------------------------------
\* direct calls of the calculator use the years
\* sliderMin - YearsBefore .. sliderMax + YearsAfter
YearsBefore == 10
YearsAfter == 6

sliderMin == 2023
sliderMax == 2050

Years == (sliderMin - YearsBefore)..(sliderMax + YearsAfter)

\* computeMetrics and getRegionalHistoricalData are pure; their values over
\* Region x Years are tabulated once, so that a step of the model looks a
\* value up where the program computes it.
MetricsTable ==
  [region \in Region, year \in Years |-> computeMetrics(region, year)]

SeriesTable == [region \in Region |-> getRegionalHistoricalData(region)]

metricsOf(region, year) ==
  IF region \in Region /\ year \in Years THEN MetricsTable[region, year]
  ELSE computeMetrics(region, year)

seriesOf(region) ==
  IF region \in Region THEN SeriesTable[region]
  ELSE getRegionalHistoricalData(region)

\* ------------------------------------------------------------------------
\* The two controls (App.tsx 334-355)
\* ------------------------------------------------------------------------
optionValuesWithPlaceholder == {regions[i] : i \in DOMAIN regions} \cup {""}

\* e.target.value of the select: the value of one of the rendered options
optionValues == {regions[i] : i \in DOMAIN regions}

rangeValuesPastMax == {DigitsOf(n) : n \in sliderMin..(sliderMax + 1)}

\* e.target.value of the range input: the decimal string of an integer
\* between min and max (step 1)
rangeValues == {DigitsOf(n) : n \in sliderMin..sliderMax}

IsDigit(c) == \E d \in DOMAIN DigitChar : DigitChar[d] = c

DigitVal(c) == (CHOOSE d \in DOMAIN DigitChar : DigitChar[d] = c) - 1

NaN == "NaN"

RECURSIVE parseIntFrom(_, _, _)
parseIntFrom(str, i, acc) ==
  IF i > Len(str) \/ ~IsDigit(str[i]) THEN acc
  ELSE parseIntFrom(str, i + 1, acc * 10 + DigitVal(str[i]))

\* parseInt(string) on an unsigned string: the leading decimal digits
parseInt(str) ==
  IF str = <<>> \/ ~IsDigit(str[1]) THEN NaN ELSE parseIntFrom(str, 1, 0)

\* ------------------------------------------------------------------------
\* ClimateAIDashboard: state, memoised values and event handlers
\* ------------------------------------------------------------------------
DepsChangedFirstOnly(prev, next) == prev[1] # next[1]

\* useMemo recomputes when some dependency differs from the previous render
DepsChanged(prev, next) == \E i \in DOMAIN next : prev[i] # next[i]

useMemoNoDeps(held, prev, next, fresh) == held

useMemo(held, prev, next, fresh) == IF DepsChanged(prev, next) THEN fresh ELSE held

\* the render that follows a state update, with the new state
Render(region, year) ==
  /\ metrics' = useMemo(metrics, metricsDeps, <<year, region>>,
                        metricsOf(region, year))
  /\ metricsDeps' = <<year, region>>
  /\ historicalData' = useMemo(historicalData, historicalDeps, <<region>>,
                               seriesOf(region))
  /\ historicalDeps' = <<region>>

\* the first render
Mount ==
  /\ selectedRegion = "Global"
  /\ selectedYear = 2050
  /\ metrics = metricsOf(selectedRegion, selectedYear)
  /\ metricsDeps = <<selectedYear, selectedRegion>>
  /\ historicalData = seriesOf(selectedRegion)
  /\ historicalDeps = <<selectedRegion>>

\* onChange of the select: setSelectedRegion(e.target.value as Region)
setSelectedRegion(v) ==
  /\ selectedRegion' = v
  /\ UNCHANGED selectedYear
  /\ Render(v, selectedYear)

setSelectedYearResetsRegion(v) ==
  /\ selectedYear' = parseInt(v)
  /\ selectedRegion' = "Global"
  /\ Render("Global", parseInt(v))

\* onChange of the range input: setSelectedYear(parseInt(e.target.value))
setSelectedYear(v) ==
  /\ selectedYear' = parseInt(v)
  /\ UNCHANGED selectedRegion
  /\ Render(selectedRegion, parseInt(v))

\* a direct call of either function, with its arguments and its result
MetricsCall(region, year) ==
  [region |-> region, year |-> year, metrics |-> metricsOf(region, year)]

SeriesCall(region) == [region |-> region, series |-> seriesOf(region)]

\* after construction the first render has called both functions
Init ==
  /\ Mount
  /\ calc = MetricsCall(selectedRegion, selectedYear)
  /\ hist = SeriesCall(selectedRegion)
  /\ anchor = <<>>

OnRegionChange == \E v \in optionValues :
  setSelectedRegion(v) /\ UNCHANGED <<calc, hist, anchor>>

OnYearChange == \E v \in rangeValues :
  setSelectedYear(v) /\ UNCHANGED <<calc, hist, anchor>>

Next == OnRegionChange \/ OnYearChange

Spec == Init /\ [][Next]_vars

\* ------------------------------------------------------------------------
\* The dashboard with a history variable: anchor remembers what one earlier
\* committed render displayed
\* ------------------------------------------------------------------------
Shown ==
  [region |-> selectedRegion, year |-> selectedYear, metrics |-> metrics,
   historicalData |-> historicalData, left |-> FALSE]

\* either remember the render being committed, or keep the remembered one
\* and note whether a different selection has been rendered since
Remember ==
  \/ anchor = <<>> /\ anchor' \in {<<>>, <<Shown'>>}
  \/ /\ anchor # <<>>
     /\ anchor' = << [anchor[1] EXCEPT !.left =
                        \/ @
                        \/ selectedRegion' # anchor[1].region
                        \/ selectedYear' # anchor[1].year] >>

InitHist ==
  /\ Mount
  /\ calc = MetricsCall(selectedRegion, selectedYear)
  /\ hist = SeriesCall(selectedRegion)
  /\ anchor \in {<<>>, <<Shown>>}

RegionChangeHist == \E v \in optionValues :
  setSelectedRegion(v) /\ Remember /\ UNCHANGED <<calc, hist>>

YearChangeHist == \E v \in rangeValues :
  setSelectedYear(v) /\ Remember /\ UNCHANGED <<calc, hist>>

NextHist == RegionChangeHist \/ YearChangeHist

SpecHist == InitHist /\ [][NextHist]_vars

\* ------------------------------------------------------------------------
\* The calculator called directly, with years inside and outside the slider
\* ------------------------------------------------------------------------
CallMetrics == \E r \in Region, y \in Years :
  calc' = MetricsCall(r, y) /\ UNCHANGED <<ui, hist, anchor>>

CallSeries == \E r \in Region :
  hist' = SeriesCall(r) /\ UNCHANGED <<ui, calc, anchor>>

NextCalc == CallMetrics \/ CallSeries

SpecCalc == Init /\ [][NextCalc]_vars

\* ------------------------------------------------------------------------
\* Exact decimal arithmetic, the reference the properties are stated in
\* ------------------------------------------------------------------------
MetricNames == {"temperature", "precipitation", "seaLevel", "extremeEvents"}

\* the regional factors in tenths
FactorTenths ==
  ("Global"        :> Factors(10, 10, 10, 10)) @@
  ("North America" :> Factors(12, 13, 8, 11)) @@
  ("Europe"        :> Factors(11, 12, 9, 12)) @@
  ("Asia"          :> Factors(13, 14, 12, 13)) @@
  ("Africa"        :> Factors(14, 7, 11, 14)) @@
  ("South America" :> Factors(11, 15, 10, 12)) @@
  ("Oceania"       :> Factors(12, 9, 13, 11))

\* 270 times the base value of metric k at yearDiff d:
\*   1.1 + d * (1.6 - 1.1) / 27,  d * 5.3 / 27,  d * 26.3 / 27,  d * 32 / 27
BaseTimes270(k, d) ==
  CASE k = "temperature"   -> 11 * 27 + d * (16 - 11)
    [] k = "precipitation" -> d * 53
    [] k = "seaLevel"      -> d * 263
    [] k = "extremeEvents" -> d * 32 * 10

\* 2700 times the exact value of metric k for (region, year)
ExactTimes2700(region, year, k) ==
  BaseTimes270(k, year - 2023) * FactorTenths[region][k]

Abs(n) == IF n < 0 THEN -n ELSE n

\* n / 10 is a one-decimal value nearest to p / q
IsNearestTenth(n, p, q) == 2 * Abs(10 * p - n * q) <= q

\* p / q >= 0 rounded half up to one decimal, as a string
RefFormat1(p, q) ==
  LET n  == (20 * p + q) \div (2 * q)
  IN  DigitsOf(n \div 10) \o <<".">> \o DigitsOf(n % 10)

Unsigned(str) == IF str # <<>> /\ str[1] = "-" THEN Tail(str) ELSE str

\* an optional "-", digits, ".", exactly one digit
WellFormed1(str) ==
  LET u == Unsigned(str)
  IN  /\ Len(u) >= 3
      /\ u[Len(u) - 1] = "."
      /\ IsDigit(u[Len(u)])
      /\ \A i \in 1..(Len(u) - 2) : IsDigit(u[i])

\* the value of a well-formed string, in tenths
Tenths(str) ==
  LET u   == Unsigned(str)
      mag == 10 * parseIntFrom(u, 1, 0) + DigitVal(u[Len(u)])
  IN  IF str[1] = "-" THEN -mag ELSE mag

\* the binary64 x is p / q up to a relative error of 2^-50 (q <= Base)
Approx(x, p, q) ==
  IF p = 0 THEN DIsZero(x)
  ELSE /\ ~DIsZero(x)
       /\ x.s = (IF p < 0 THEN -1 ELSE 1)
       /\ x.e < 0
       /\ LET A == BMulSmall(x.m, q)
              B == BShl(BFromInt(Abs(p)), -x.e)
              D == IF BCmp(A, B) >= 0 THEN BSub(A, B) ELSE BSub(B, A)
          IN  BCmp(BShl(D, 50), B) <= 0

ZeroPointZero == <<"0", ".", "0">>

\* ------------------------------------------------------------------------
\* Properties of the calculator (checked under SpecCalc)
\* ------------------------------------------------------------------------

\* C1: for every region and every integer year, inside or outside
\* [2023, 2050], the computation returns four metrics (no year is rejected or
\* clamped), and each is the exact value of its formula
\*   (1.1 + d*(1.6-1.1)/27) * f,  (d*5.3/27) * f,  (d*26.3/27) * f,
\*   (d*32/27) * f,   d = year - 2023, f the regional factor,
\* rounded to one fractional digit: it is well formed and no one-decimal value
\* is nearer to the exact value.  Asia at 2036 gives the precipitation
\* 13*5.3/27*1.4 rounded, "3.6".
C1_MetricsFormula ==
  /\ DOMAIN calc.metrics = MetricNames
  /\ \A k \in MetricNames :
       /\ WellFormed1(calc.metrics[k])
       /\ IsNearestTenth(Tenths(calc.metrics[k]),
                         ExactTimes2700(calc.region, calc.year, k), 2700)
  /\ (calc.region = "Asia" /\ calc.year = 2036
        => calc.metrics.precipitation = RefFormat1(13 * 53 * 14, 2700))

C1_Witness ==
  /\ calc.region = "Asia"
  /\ calc.year = sliderMax + 2
  /\ calc.metrics.precipitation = RefFormat1(29 * 53 * 14, 2700)

\* C2: at year 2023 the temperature is 1.1 * factor.temperature formatted to
\* one decimal and the other three metrics are "0.0"; Africa gives "1.5".
C2_BaseYear ==
  calc.year = 2023 =>
    /\ calc.metrics.temperature =
         RefFormat1(11 * FactorTenths[calc.region].temperature, 100)
    /\ calc.metrics.precipitation = ZeroPointZero
    /\ calc.metrics.seaLevel = ZeroPointZero
    /\ calc.metrics.extremeEvents = ZeroPointZero
    /\ (calc.region = "Africa" => calc.metrics.temperature = <<"1", ".", "5">>)

C2_Witness ==
  /\ calc.region = "Africa"
  /\ calc.year = 2023
  /\ calc.metrics.temperature = <<"1", ".", "5">>
  /\ calc.metrics.seaLevel = ZeroPointZero

\* C3: at year 2050 the temperature is 1.6 * factor.temperature formatted to
\* one decimal, and Global gives exactly "1.6", "5.3", "26.3", "32.0".
C3_EndYear ==
  calc.year = 2050 =>
    /\ calc.metrics.temperature =
         RefFormat1(16 * FactorTenths[calc.region].temperature, 100)
    /\ (calc.region = "Global" =>
          /\ calc.metrics.temperature = <<"1", ".", "6">>
          /\ calc.metrics.precipitation = <<"5", ".", "3">>
          /\ calc.metrics.seaLevel = <<"2", "6", ".", "3">>
          /\ calc.metrics.extremeEvents = <<"3", "2", ".", "0">>)

C3_Witness ==
  /\ calc.region = "Africa"
  /\ calc.year = 2050
  /\ calc.metrics.temperature = <<"2", ".", "2">>

AnchorYears == <<1900, 1950, 2000, 2023, 2030, 2040, 2050>>

BaseDeviationTenths == <<-2, 0, 5, 11, 13, 14, 16>>

\* C4: the historical series of every region has exactly 7 entries, their
\* years are 1900, 1950, 2000, 2023, 2030, 2040, 2050 in this ascending
\* order whatever the region, and the i-th temperature is the i-th of
\* -0.2, 0, 0.5, 1.1, 1.3, 1.4, 1.6 times factor.temperature (as a binary64
\* product); the entry of index 3 counted from 0 is (2023, 1.1 * factor).
C4_HistoricalSeries ==
  /\ Len(hist.series) = 7
  /\ \A i \in 1..7 :
       /\ hist.series[i].year = AnchorYears[i]
       /\ Approx(hist.series[i].temperature,
                 BaseDeviationTenths[i] * FactorTenths[hist.region].temperature,
                 100)
  /\ \A i \in 1..6 : hist.series[i].year < hist.series[i + 1].year
  /\ hist.series[4].year = 2023
  /\ Approx(hist.series[4].temperature,
            11 * FactorTenths[hist.region].temperature, 100)

C4_Witness ==
  /\ hist.region = "Africa"
  /\ Len(hist.series) = 7
  /\ hist.series[4].year = 2023
  /\ Approx(hist.series[4].temperature, 154, 100)
  /\ hist.series[1].temperature.s = -1

\* C5: for a fixed region the formatted temperature, read as a number, does
\* not decrease when the year does not decrease: a computation for (R, y2)
\* that follows one for (R, y1) with y1 <= y2 returns at least as much.
C5_Monotone ==
  [][calc'.region = calc.region /\ calc.year <= calc'.year
       => Tenths(calc.metrics.temperature) <= Tenths(calc'.metrics.temperature)
    ]_vars

C5_Witness ==
  /\ calc.region = "Oceania"
  /\ calc.year < baseYear
  /\ Tenths(calc.metrics.temperature) < 13

\* C6 as stated: for every region and every integer year each of the four
\* values has exactly one fractional digit and carries no sign character.
C6_AlwaysUnsigned ==
  \A k \in MetricNames :
    WellFormed1(calc.metrics[k]) /\ calc.metrics[k][1] # "-"

\* C6 amended: every value has exactly one fractional digit; for a year from
\* 2023 on none of the four carries a sign; for a year before 2023 the
\* precipitation, the sea level and the extreme events begin with "-".
C6_UnsignedFromBaseYear ==
  /\ \A k \in MetricNames : WellFormed1(calc.metrics[k])
  /\ (calc.year >= baseYear =>
        \A k \in MetricNames : calc.metrics[k][1] # "-")
  /\ (calc.year < baseYear =>
        \A k \in MetricNames \ {"temperature"} : calc.metrics[k][1] = "-")

C6_Witness ==
  /\ calc.year = baseYear - 1
  /\ calc.region = "Europe"
  /\ calc.metrics.precipitation = <<"-", "0", ".", "2">>
  /\ calc.metrics.temperature[1] # "-"

\* ------------------------------------------------------------------------
\* Properties of the dashboard
\* ------------------------------------------------------------------------

\* C7: a value that is not one of the 7 regions never reaches the
\* calculator: both computations have only ever been run for an enumerated
\* region, and no render holds the outcome of a failed computation.
C7_OnlyEnumeratedRegions ==
  /\ metricsDeps[2] \in Region
  /\ historicalDeps[1] \in Region
  /\ metrics # TypeError
  /\ historicalData # Thrown

C7_Witness ==
  /\ metricsDeps = <<2050, "Oceania">>
  /\ historicalDeps = <<"Oceania">>
  /\ Len(historicalData) = 7

\* C8: two renders of the same (region, year) display identical metric
\* strings, and two renders of the same region the identical series, whatever
\* was selected and computed before or between them.
C8_Deterministic ==
  anchor # <<>> =>
    /\ (anchor[1].region = selectedRegion /\ anchor[1].year = selectedYear
          => metrics = anchor[1].metrics)
    /\ (anchor[1].region = selectedRegion
          => historicalData = anchor[1].historicalData)

C8_Witness ==
  /\ anchor # <<>>
  /\ anchor[1].left
  /\ anchor[1].region = selectedRegion
  /\ anchor[1].year = selectedYear
  /\ selectedRegion = "Europe"
  /\ selectedYear = 2031

\* C9: after any sequence of dropdown and slider changes the selected region
\* is one of the 7 regions and the selected year an integer in [2023, 2050].
C9_SelectionInvariant ==
  /\ selectedRegion \in Region
  /\ selectedYear \in sliderMin..sliderMax

C9_Witness ==
  /\ selectedRegion = "North America"
  /\ selectedYear = sliderMin

\* C10: after every committed render the memoised metrics are what a fresh
\* computation gives for the current selection, and the memoised series is
\* a fresh series for the current region.
C10_MemoTransparent ==
  /\ metrics = computeMetrics(selectedRegion, selectedYear)
  /\ historicalData = getRegionalHistoricalData(selectedRegion)

C10_Witness ==
  /\ selectedRegion = "Asia"
  /\ selectedYear = 2036
  /\ metrics.precipitation = <<"3", ".", "6">>
  /\ historicalData[1].year = 1900

\* C11: a step that changes the selected year (a slider change) leaves the
\* selected region, the historical series and the dependency of the series
\* unchanged; a step that changes the selected region (a dropdown change)
\* leaves the selected year unchanged; and the computations a step runs leave
\* the selection as the handler set it: no step changes both.
C11_SelectionFrame ==
  [][/\ (selectedYear' # selectedYear =>
           /\ selectedRegion' = selectedRegion
           /\ historicalData' = historicalData
           /\ historicalDeps' = historicalDeps)
     /\ (selectedRegion' # selectedRegion => selectedYear' = selectedYear)
    ]_vars

C11_Witness ==
  /\ selectedRegion = "Africa"
  /\ selectedYear = sliderMin + 1
  /\ metricsDeps = <<sliderMin + 1, "Africa">>
  /\ historicalDeps = <<"Africa">>
  /\ Approx(historicalData[4].temperature, 154, 100)

====
